---- MODULE Spec2Model ----
(***************************************************************************)
(* Paper-trading ledger and order execution of the AI hedge fund          *)
(* simulator (src/hedgefund/trading/paper_trader.py), with the orders     *)
(* and positions tables of src/hedgefund/models/models.py.                *)
(*                                                                         *)
(* Money is modelled exactly: quotes are integers, and the float fields   *)
(* that the code obtains by division (avg_entry_price, cost_basis,        *)
(* unrealized_pl, unrealized_pl_percent) are rationals <<num, den>> in    *)
(* lowest terms with den > 0.  Float rounding is not modelled.            *)
(* Timestamps (updated_at) are not modelled.                              *)
(***************************************************************************)
EXTENDS Integers, Sequences, FiniteSets, TLC

(***************************************************************************)
(* Bounds of the model.                                                    *)
(***************************************************************************)
MaxCalls == 2
MaxOrders == 2
MaxDate == 1

Symbols == {"AAPL", "MSFT"}
Sides == {"buy", "sell"}
Prices == {1, 2}
Quantities == {1, 2}

\* Constructor arguments of PaperTrader as the model draws them:
\* <<initial_capital, max_position_size>>, the fraction as <<num, den>>
\* (<<1, 20>> is the default MAX_POSITION_SIZE = 0.05).  The trader is
\* always given a database session, as Orchestrator.__init__ does.
TraderConfigs == {<<40, <<1, 20>>>>, <<3, <<1, 1>>>>}

\* Outcome of MarketData.get_current_price when both sources fail.
QuoteUnavailable == 0
Quotes == Prices \cup {QuoteUnavailable}

\* Order.filled_avg_price of an order that has not been filled (NULL).
NoPrice == 0

(***************************************************************************)
(* Exact arithmetic for the float fields.                                  *)
(***************************************************************************)
Abs(x) == IF x < 0 THEN 0 - x ELSE x

RECURSIVE GCD(_, _)
GCD(a, b) == IF b = 0 THEN a ELSE GCD(b, a % b)

\* n / d for d > 0, in lowest terms
Rat(n, d) ==
    LET g == GCD(Abs(n), d)
    IN  <<(Abs(n) \div g) * (IF n < 0 THEN 0 - 1 ELSE 1), d \div g>>

RatInt(i) == <<i, 1>>
RatAdd(a, b) == Rat(a[1] * b[2] + b[1] * a[2], a[2] * b[2])
RatSub(a, b) == Rat(a[1] * b[2] - b[1] * a[2], a[2] * b[2])
RatMulInt(a, k) == Rat(a[1] * k, a[2])
RatDivInt(a, k) == Rat(a[1], a[2] * k)
\* a / b for b > 0
RatDiv(a, b) == Rat(a[1] * b[2], a[2] * b[1])

\* (unrealized_pl / cost_basis) * 100 if cost_basis > 0 else 0
PlPercent(unrealized_pl, cost_basis) ==
    IF cost_basis[1] > 0
    THEN RatMulInt(RatDiv(unrealized_pl, cost_basis), 100)
    ELSE RatInt(0)

(***************************************************************************)
(* State.                                                                  *)
(***************************************************************************)
VARIABLES
    initial_capital,    \* PaperTrader.initial_capital
    max_position_size,  \* PaperTrader.max_position_size, <<num, den>>
    cash,               \* PaperTrader.cash
    positions,          \* PaperTrader.positions: held symbol -> Position object
    orders,             \* orders table: sequence of Order rows, id = index
    db_positions,       \* positions table: symbol -> committed row
    pc,                 \* "idle", or "processing" inside process_pending_orders
    pending_orders,     \* process_pending_orders: ids the query returned
    pending,            \* process_pending_orders: ids still to execute
    results,            \* process_pending_orders: the list of results
    last_result,        \* the dictionary returned by the last execute_order
    portfolio,          \* the dictionary the operation just finished returned
                        \* from get_portfolio_value / take_portfolio_snapshot
    saved,              \* take_portfolio_snapshot just finished: how its
                        \* commit ended
    snapshots,          \* portfolio_snapshots table: sequence of rows
    cycle,              \* run_trading_cycle: "running" inside it; "returned"
                        \* or "error" when it has just ended; else "none"
    buy_fills,          \* history: BUY fills into each open position
    applied,            \* history: per order id, the number of executions
                        \* that applied its fill to cash and positions
    calls,              \* number of execute_order calls so far
    args,               \* main: the command line flags
    main_pc,            \* main: the next step of main()
    main_call,          \* main: the orchestrator method the main thread is in
    scheduler_running,  \* Orchestrator.scheduler_running
    scheduler_thread,   \* Orchestrator.scheduler_thread: "none" or "alive"
    job,                \* the job the scheduler thread is running
    cached_data,        \* MarketData._cached_data: key -> <<time, data>>
    now,                \* datetime.now()
    history,            \* what get_historical_data just returned
    fetched,            \* per request, the time and data of its last fetch
    price,              \* what get_current_price just returned
    recommendations,    \* the recommendations table
    decisions,          \* the manager_decisions table
    manager_pc,         \* "idle", or "evaluating" inside the manager's loop
    pending_recommendations, \* the recommendations still to evaluate
    evaluations,        \* the results list of the evaluation
    evaluation,         \* what the last iteration of the loop obtained
    registered,         \* how many times the jobs were added to `schedule`
    started,            \* start_scheduler returned and no stop came since
    exec,               \* per thread, where it stands inside execute_order
    full                \* run_full_cycle: its arguments and what it returned

vars == <<initial_capital, max_position_size, cash, positions, orders,
          db_positions, pc, pending_orders, pending, results, last_result,
          portfolio, saved, snapshots, cycle, buy_fills, applied, calls,
          args, main_pc, main_call, scheduler_running, scheduler_thread, job,
          cached_data, now, history, fetched, price,
          recommendations, decisions, manager_pc, pending_recommendations,
          evaluations, evaluation, registered, started, exec, full>>

\* the state of the threads of main.py
threads == <<args, main_pc, main_call, scheduler_running, scheduler_thread,
             job, registered, started>>

\* the state of the MarketData service
market == <<cached_data, now, history, fetched, price>>

\* the state of the fund manager and its tables
manager == <<recommendations, decisions, manager_pc,
             pending_recommendations, evaluations, evaluation>>

\* the state outside the trader and the orders table
outside == <<threads, market, manager, exec, full>>

\* main() has not started
NoThreads ==
    /\ args = [no_scheduler |-> TRUE, run_fund_manager |-> FALSE,
               run_trading |-> FALSE, run_once |-> FALSE]
    /\ main_pc = "done"
    /\ main_call = "none"
    /\ scheduler_running = FALSE
    /\ scheduler_thread = "none"
    /\ job = "none"
    /\ registered = 0
    /\ started = FALSE

config == <<initial_capital, max_position_size>>

\* self.positions = {}
EmptyMap == [x \in {} |-> 0]

\* no portfolio dictionary has been returned by the operation just finished
NoPortfolio == [cash |-> 0, positions_value |-> 0, equity |-> 0,
                initial_capital |-> 0, total_pl |-> 0,
                total_pl_percent |-> <<0, 1>>, positions |-> EmptyMap]

\* the operation is no valuation and ends no trading cycle
NoValuation ==
    /\ portfolio' = NoPortfolio
    /\ saved' = "none"
    /\ cycle' = IF cycle = "running" THEN "running" ELSE "none"

NoResult == [success |-> FALSE, reason |-> "none", symbol |-> "none",
             side |-> "none", quantity |-> 0, price |-> 0]

\* PaperTrader(initial_capital=capital, max_position_size=mps) over empty tables
Constructed(capital, mps) ==
    /\ initial_capital = capital
    /\ max_position_size = mps
    /\ cash = initial_capital
    /\ positions = EmptyMap
    /\ orders = <<>>
    /\ db_positions = EmptyMap
    /\ pc = "idle"
    /\ pending_orders = <<>>
    /\ pending = <<>>
    /\ results = <<>>
    /\ last_result = NoResult
    /\ portfolio = NoPortfolio
    /\ saved = "none"
    /\ snapshots = <<>>
    /\ cycle = "none"
    /\ buy_fills = EmptyMap
    /\ applied = <<>>
    /\ calls = 0

NewTrader == \E cfg \in TraderConfigs : Constructed(cfg[1], cfg[2])

NoHistory == [request |-> <<>>, outcome |-> "none", data |-> 0,
              provider |-> FALSE, expired |-> FALSE]

NoQuote == [symbol |-> "none", primary |-> 0, fallback |-> 0,
            answer |-> [outcome |-> "none", value |-> 0, fallback |-> FALSE]]

\* MarketData.__init__: an empty cache
NewMarket ==
    /\ cached_data = EmptyMap
    /\ now = 0
    /\ history = NoHistory
    /\ fetched = EmptyMap
    /\ price = NoQuote

NoEvaluation == [recommendation_id |-> 0, decision |-> "none",
                 modified_quantity |-> 0]

\* no recommendation yet, the fund manager idle
NewManager ==
    /\ recommendations = <<>>
    /\ decisions = <<>>
    /\ manager_pc = "idle"
    /\ pending_recommendations = <<>>
    /\ evaluations = <<>>
    /\ evaluation = NoEvaluation

\* the threads that call into the one PaperTrader of the orchestrator
ExecThreads == {"main", "scheduler"}

NotExecuting == [at |-> "idle", symbol |-> "none", quantity |-> 0,
                 current_price |-> 0]

NoFullCycle == [status |-> "none", force_run |-> FALSE, market_open |-> FALSE]

\* no thread is inside execute_order, run_full_cycle has not been called
NoCalls ==
    /\ exec = [t \in ExecThreads |-> NotExecuting]
    /\ full = NoFullCycle

Init == NewTrader /\ NoThreads /\ NewMarket /\ NewManager /\ NoCalls

(***************************************************************************)
(* execute_order: the risk checks.                                         *)
(***************************************************************************)
\* variants of the affordability test: one unit of slack; cost >= cash
InsufficientCashSlack(cost, c) == cost > c + 1
InsufficientCashStrict(cost, c) == cost >= c

\* cost > self.cash
InsufficientCash(cost, c) == cost > c

RECURSIVE SumMarketValue(_, _)
SumMarketValue(pos, S) ==
    IF S = {} THEN 0
    ELSE LET s == CHOOSE x \in S : TRUE
         IN  pos[s].market_value + SumMarketValue(pos, S \ {s})

\* self.cash + sum(p.market_value for p in self.positions.values())
PortfolioValue(c, pos) == c + SumMarketValue(pos, DOMAIN pos)

\* variant of the position-size test: >= instead of >
ReachesMaxPositionSize(trade_value, portfolio_value, mps) ==
    IF portfolio_value > 0
    THEN trade_value * mps[2] >= mps[1] * portfolio_value
    ELSE 0 >= mps[1]

\* trade_percent > self.max_position_size, where trade_percent is
\* trade_value / portfolio_value if portfolio_value > 0 else 0
ExceedsMaxPositionSize(trade_value, portfolio_value, mps) ==
    IF portfolio_value > 0
    THEN trade_value * mps[2] > mps[1] * portfolio_value
    ELSE 0 > mps[1]

\* variant of the holdings test: <= instead of <
InsufficientSharesStrict(held, quantity) == held <= quantity

\* position.quantity < quantity
InsufficientShares(held, quantity) == held < quantity

(***************************************************************************)
(* execute_order: the position mutations.                                  *)
(***************************************************************************)
\* Position(symbol=..., quantity=..., ...) for the first BUY of a symbol
NewPosition(quantity, current_price) ==
    [quantity |-> quantity,
     avg_entry_price |-> RatInt(current_price),
     current_price |-> current_price,
     market_value |-> quantity * current_price,
     cost_basis |-> RatInt(quantity * current_price),
     unrealized_pl |-> RatInt(0),
     unrealized_pl_percent |-> RatInt(0),
     persisted |-> FALSE]

\* variant of the BUY into an existing position: the new average is the
\* plain mean of the old average and the fill price
AddToPositionPlainMean(position, quantity, current_price) ==
    LET total_quantity == position.quantity + quantity
        new_cost == RatAdd(RatMulInt(position.avg_entry_price, position.quantity),
                           RatInt(current_price * quantity))
        new_avg_price == RatDivInt(RatAdd(position.avg_entry_price,
                                          RatInt(current_price)), 2)
        market_value == total_quantity * current_price
        unrealized_pl == RatSub(RatInt(market_value), new_cost)
    IN  [position EXCEPT
            !.quantity = total_quantity,
            !.avg_entry_price = new_avg_price,
            !.cost_basis = new_cost,
            !.current_price = current_price,
            !.market_value = market_value,
            !.unrealized_pl = unrealized_pl,
            !.unrealized_pl_percent = PlPercent(unrealized_pl, new_cost)]

\* BUY into an existing position
AddToPosition(position, quantity, current_price) ==
    LET total_quantity == position.quantity + quantity
        new_cost == RatAdd(RatMulInt(position.avg_entry_price, position.quantity),
                           RatInt(current_price * quantity))
        new_avg_price == RatDivInt(new_cost, total_quantity)
        market_value == total_quantity * current_price
        unrealized_pl == RatSub(RatInt(market_value), new_cost)
    IN  [position EXCEPT
            !.quantity = total_quantity,
            !.avg_entry_price = new_avg_price,
            !.cost_basis = new_cost,
            !.current_price = current_price,
            !.market_value = market_value,
            !.unrealized_pl = unrealized_pl,
            !.unrealized_pl_percent = PlPercent(unrealized_pl, new_cost)]

\* variant of the partial SELL: cost_basis is not recomputed
ReducePositionStaleCost(position, quantity, current_price) ==
    LET remaining == position.quantity - quantity
        market_value == remaining * current_price
        unrealized_pl == RatSub(RatInt(market_value), position.cost_basis)
    IN  [position EXCEPT
            !.quantity = remaining,
            !.market_value = market_value,
            !.unrealized_pl = unrealized_pl,
            !.unrealized_pl_percent = PlPercent(unrealized_pl, position.cost_basis)]

\* SELL of fewer shares than held; current_price is left as it was
\* variant of the partial SELL: the proceeds are taken off the cost basis
\* and the average entry price is recomputed from it
ReducePositionReaverage(position, quantity, current_price) ==
    LET remaining == position.quantity - quantity
        market_value == remaining * current_price
        cost_basis == RatSub(position.cost_basis, RatInt(quantity * current_price))
        unrealized_pl == RatSub(RatInt(market_value), cost_basis)
    IN  [position EXCEPT
            !.quantity = remaining,
            !.avg_entry_price = RatDivInt(cost_basis, remaining),
            !.market_value = market_value,
            !.cost_basis = cost_basis,
            !.unrealized_pl = unrealized_pl,
            !.unrealized_pl_percent = PlPercent(unrealized_pl, cost_basis)]

ReducePosition(position, quantity, current_price) ==
    LET remaining == position.quantity - quantity
        market_value == remaining * current_price
        cost_basis == RatMulInt(position.avg_entry_price, remaining)
        unrealized_pl == RatSub(RatInt(market_value), cost_basis)
    IN  [position EXCEPT
            !.quantity = remaining,
            !.market_value = market_value,
            !.cost_basis = cost_basis,
            !.unrealized_pl = unrealized_pl,
            !.unrealized_pl_percent = PlPercent(unrealized_pl, cost_basis)]

\* del self.positions[symbol]
Remove(f, s) == [x \in DOMAIN f \ {s} |-> f[x]]

\* self.positions[symbol] = position
Put(f, s, v) == [x \in DOMAIN f \cup {s} |-> IF x = s THEN v ELSE f[x]]

(***************************************************************************)
(* execute_order: checks in the order the code makes them.  The result is *)
(* the reason carried by the returned dictionary's message.               *)
(***************************************************************************)
Rejections == {"insufficient_cash", "position_size", "no_position",
               "insufficient_shares"}

Checks(symbol, side, quantity, current_price, c, pos, mps) ==
    IF side = "buy" /\ InsufficientCash(current_price * quantity, c)
        THEN "insufficient_cash"
    ELSE IF side = "buy"
            /\ ExceedsMaxPositionSize(current_price * quantity,
                                      PortfolioValue(c, pos), mps)
        THEN "position_size"
    ELSE IF side = "sell" /\ symbol \notin DOMAIN pos
        THEN "no_position"
    ELSE IF side = "sell" /\ InsufficientShares(pos[symbol].quantity, quantity)
        THEN "insufficient_shares"
    ELSE "executed"

\* new_avg_price = new_cost / total_quantity raises ZeroDivisionError when a
\* BUY of no shares adds to a position of no shares; cash has been debited
\* by 0 and no field of the position has been assigned yet
\* variant of the division: the total quantity is taken as the difference
DividesByZeroOnDifference(symbol, side, quantity, pos) ==
    /\ side = "buy"
    /\ symbol \in DOMAIN pos
    /\ pos[symbol].quantity - quantity = 0

DividesByZero(symbol, side, quantity, pos) ==
    /\ side = "buy"
    /\ symbol \in DOMAIN pos
    /\ pos[symbol].quantity + quantity = 0

\* variant of the outcome: the failure of get_current_price is not noticed
\* and the order is carried out at the price 0
OutcomeQuoteUnchecked(symbol, side, quantity, quote, c, pos, mps) ==
    LET checks == Checks(symbol, side, quantity, quote, c, pos, mps)
    IN  IF checks = "executed" /\ DividesByZero(symbol, side, quantity, pos)
        THEN "error"
        ELSE checks

\* an exception (get_current_price raising, the division) ends the call in
\* the outer except
Outcome(symbol, side, quantity, quote, c, pos, mps) ==
    LET checks == Checks(symbol, side, quantity, quote, c, pos, mps)
    IN  IF quote = QuoteUnavailable THEN "error"
        ELSE IF checks = "executed" /\ DividesByZero(symbol, side, quantity, pos)
        THEN "error"
        ELSE checks

\* variant of the cash mutation: a BUY is debited the price of one share
CashAfterOneShare(side, quantity, current_price, c) ==
    IF side = "buy" THEN c - current_price
    ELSE c + current_price * quantity

\* self.cash -= current_price * quantity / self.cash += current_price * quantity
CashAfter(side, quantity, current_price, c) ==
    IF side = "buy" THEN c - current_price * quantity
    ELSE c + current_price * quantity

\* variant of the position mutation: a SELL of the whole holding reduces the
\* position to quantity 0 and keeps it
PositionsAfterKeepZero(symbol, side, quantity, current_price, pos) ==
    IF side = "buy"
    THEN IF symbol \in DOMAIN pos
         THEN Put(pos, symbol, AddToPosition(pos[symbol], quantity, current_price))
         ELSE Put(pos, symbol, NewPosition(quantity, current_price))
    ELSE Put(pos, symbol, ReducePosition(pos[symbol], quantity, current_price))

PositionsAfter(symbol, side, quantity, current_price, pos) ==
    IF side = "buy"
    THEN IF symbol \in DOMAIN pos
         THEN Put(pos, symbol, AddToPosition(pos[symbol], quantity, current_price))
         ELSE Put(pos, symbol, NewPosition(quantity, current_price))
    ELSE IF pos[symbol].quantity = quantity
         THEN Remove(pos, symbol)
         ELSE Put(pos, symbol, ReducePosition(pos[symbol], quantity, current_price))

(***************************************************************************)
(* Persistence through the session.  A Position object created by the     *)
(* trader has no row yet (persisted = FALSE); committing it inserts a row, *)
(* which the unique symbol column refuses when a row of that symbol        *)
(* exists.  Closing a position removes the object from self.positions but  *)
(* never deletes its row.  A commit can also fail for reasons of the       *)
(* storage itself (storage_ok = FALSE).  A failed commit is rolled back:   *)
(* no row changes.  The objects in self.positions keep the values the      *)
(* trader assigned to them.                                                *)
(***************************************************************************)
UniqueViolation(added, pos, rows) ==
    \E s \in added : ~pos[s].persisted /\ s \in DOMAIN rows

CommitOk(added, pos, rows, storage_ok) ==
    storage_ok /\ ~UniqueViolation(added, pos, rows)

\* the objects in self.positions after a successful commit of `added`
Persisted(added, pos) ==
    [s \in DOMAIN pos |->
        IF s \in added THEN [pos[s] EXCEPT !.persisted = TRUE] ELSE pos[s]]

\* the positions table after a successful commit of `added`
RowsAfter(added, pos, rows) ==
    [s \in DOMAIN rows \cup added |->
        IF s \in added THEN [pos[s] EXCEPT !.persisted = TRUE] ELSE rows[s]]

\* db_order.status = FILLED; filled_quantity; filled_avg_price
FillOrder(ords, order_id, quantity, current_price) ==
    IF order_id \in 1..Len(ords)
    THEN [ords EXCEPT ![order_id].status = "filled",
                      ![order_id].filled_quantity = quantity,
                      ![order_id].filled_avg_price = current_price]
    ELSE ords

\* history of the BUY fills into each open position since it was opened;
\* a position that has seen a SELL is only marked as such
FillsAfter(symbol, side, quantity, current_price, pos, fills) ==
    IF side = "buy"
    THEN IF symbol \in DOMAIN pos
         THEN IF fills[symbol].sold THEN fills
              ELSE Put(fills, symbol,
                       [quantity |-> fills[symbol].quantity + quantity,
                        cost |-> fills[symbol].cost + quantity * current_price,
                        sold |-> FALSE])
         ELSE Put(fills, symbol, [quantity |-> quantity,
                                  cost |-> quantity * current_price,
                                  sold |-> FALSE])
    ELSE IF pos[symbol].quantity = quantity
         THEN Remove(fills, symbol)
         ELSE Put(fills, symbol, [quantity |-> 0, cost |-> 0, sold |-> TRUE])

(***************************************************************************)
(* execute_order(order).  order_id = 0 is an order given as a dictionary   *)
(* (no id); otherwise the id of a row of the orders table.                 *)
(***************************************************************************)
\* the body of execute_order: what it does to the trader and the tables
ExecuteOrderBody(order_id, symbol, side, quantity, quote) ==
    LET outcome == Outcome(symbol, side, quantity, quote, cash, positions,
                           max_position_size)
    IN  /\ NoValuation
        /\ UNCHANGED <<config, snapshots>>
        /\ IF outcome # "executed"
           THEN /\ last_result' = [success |-> FALSE, reason |-> outcome,
                                   symbol |-> symbol, side |-> side,
                                   quantity |-> quantity, price |-> quote]
                \* an exception raised after the quote was obtained comes
                \* after the cash mutation and before the position's
                /\ cash' = IF outcome = "error" /\ quote # QuoteUnavailable
                           THEN CashAfter(side, quantity, quote, cash)
                           ELSE cash
                /\ UNCHANGED <<positions, orders, db_positions, buy_fills>>
           ELSE \E storage_ok \in BOOLEAN :
                LET pos == PositionsAfter(symbol, side, quantity, quote, positions)
                    added == {symbol} \cap DOMAIN pos
                    ok == CommitOk(added, pos, db_positions, storage_ok)
                IN  /\ cash' = CashAfter(side, quantity, quote, cash)
                    /\ buy_fills' = FillsAfter(symbol, side, quantity, quote,
                                               positions, buy_fills)
                    /\ positions' = IF ok THEN Persisted(added, pos) ELSE pos
                    /\ db_positions' = IF ok THEN RowsAfter(added, pos, db_positions)
                                       ELSE db_positions
                    /\ orders' = IF ok THEN FillOrder(orders, order_id, quantity, quote)
                                 ELSE orders
                    /\ last_result' = [success |-> TRUE, reason |-> "executed",
                                       symbol |-> symbol, side |-> side,
                                       quantity |-> quantity, price |-> quote]

\* execute_order, counted: one more call, and one more execution of the
\* order when the trade is carried out
ExecuteOrder(order_id, symbol, side, quantity, quote) ==
    /\ calls' = calls + 1
    /\ applied' = IF /\ Outcome(symbol, side, quantity, quote, cash, positions,
                                max_position_size) = "executed"
                     /\ order_id \in 1..Len(applied)
                  THEN [applied EXCEPT ![order_id] = @ + 1]
                  ELSE applied
    /\ ExecuteOrderBody(order_id, symbol, side, quantity, quote)

\* execute_order called directly with a dictionary order
ExecuteOrderDict ==
    /\ pc = "idle"
    /\ calls < MaxCalls
    /\ \E symbol \in Symbols, side \in Sides, quantity \in Quantities,
          quote \in Quotes :
            ExecuteOrder(0, symbol, side, quantity, quote)
    /\ UNCHANGED <<pc, pending_orders, pending, results>>
    /\ UNCHANGED outside

(***************************************************************************)
(* process_pending_orders: query the NEW orders, execute each in turn and  *)
(* append its result; the list of results is handed to the caller when    *)
(* the loop is over, and the locals of the call are gone.                 *)
(***************************************************************************)
\* variant of the query: .first() instead of .all()
NewOrderIdsFirst(ords) ==
    LET ids == SelectSeq([i \in 1..Len(ords) |-> i],
                         LAMBDA i : ords[i].status = "new")
    IN  IF ids = <<>> THEN <<>> ELSE <<Head(ids)>>

\* variant of the query: no filter on the status
NewOrderIdsAnyStatus(ords) == [i \in 1..Len(ords) |-> i]

NewOrderIds(ords) ==
    SelectSeq([i \in 1..Len(ords) |-> i], LAMBDA i : ords[i].status = "new")

ProcessPendingOrders ==
    /\ pc = "idle"
    /\ calls + Len(NewOrderIds(orders)) <= MaxCalls
    /\ pending_orders' = NewOrderIds(orders)
    /\ pending' = pending_orders'
    /\ results' = <<>>
    /\ pc' = "processing"
    /\ NoValuation
    /\ UNCHANGED <<config, cash, positions, orders, db_positions, last_result,
                   snapshots, buy_fills, applied, calls>>
    /\ UNCHANGED outside

ExecutePendingOrder ==
    /\ pc = "processing"
    /\ pending # <<>>
    /\ LET order == orders[Head(pending)]
       IN  \E quote \in Quotes :
              ExecuteOrder(Head(pending), order.symbol, order.side,
                           order.quantity, quote)
    /\ pending' = Tail(pending)
    /\ results' = Append(results, last_result')
    /\ UNCHANGED <<pc, pending_orders>>
    /\ UNCHANGED outside

ReturnResults ==
    /\ pc = "processing"
    /\ cycle # "running"
    /\ pending = <<>>
    /\ pc' = "idle"
    /\ pending_orders' = <<>>
    /\ results' = <<>>
    /\ NoValuation
    /\ UNCHANGED <<config, cash, positions, orders, db_positions, pending,
                   last_result, snapshots, buy_fills, applied, calls>>
    /\ UNCHANGED outside

(***************************************************************************)
(* FundManager.create_order: a NEW market order is added to the table.     *)
(* Its quantity is the decision's modified_quantity or the quantity of the *)
(* recommendation, and 0 when the recommendation carries none; nothing     *)
(* checks that it is positive.                                             *)
(***************************************************************************)
DefaultQuantity == 0

OrderQuantities == Quantities \cup {DefaultQuantity}

CreateOrder ==
    /\ pc = "idle"
    /\ Len(orders) < MaxOrders
    /\ \E symbol \in Symbols, side \in Sides, quantity \in OrderQuantities :
          orders' = Append(orders, [symbol |-> symbol, side |-> side,
                                    type |-> "market",
                                    quantity |-> quantity, status |-> "new",
                                    filled_quantity |-> 0,
                                    filled_avg_price |-> NoPrice])
    /\ applied' = Append(applied, 0)
    /\ NoValuation
    /\ UNCHANGED <<config, cash, positions, db_positions, pc, pending_orders,
                   pending, results, last_result, snapshots, buy_fills, calls>>
    /\ UNCHANGED outside

(***************************************************************************)
(* get_portfolio_value: _update_positions revalues every held position     *)
(* whose quote is available and commits.                                   *)
(***************************************************************************)
\* variant of the valuation: the position is marked to market, cost basis
\* included
RevalueAtMarket(position, current_price) ==
    LET market_value == position.quantity * current_price
    IN  [position EXCEPT
            !.current_price = current_price,
            !.market_value = market_value,
            !.cost_basis = RatInt(market_value),
            !.unrealized_pl = RatInt(0),
            !.unrealized_pl_percent = RatInt(0)]

\* variant of the valuation: the unrealized P&L is added to the stored one
RevalueAccumulating(position, current_price) ==
    LET market_value == position.quantity * current_price
        unrealized_pl == RatAdd(position.unrealized_pl,
                                RatSub(RatInt(market_value), position.cost_basis))
    IN  [position EXCEPT
            !.current_price = current_price,
            !.market_value = market_value,
            !.unrealized_pl = unrealized_pl,
            !.unrealized_pl_percent = PlPercent(unrealized_pl, position.cost_basis)]

Revalue(position, current_price) ==
    LET market_value == position.quantity * current_price
        unrealized_pl == RatSub(RatInt(market_value), position.cost_basis)
    IN  [position EXCEPT
            !.current_price = current_price,
            !.market_value = market_value,
            !.unrealized_pl = unrealized_pl,
            !.unrealized_pl_percent = PlPercent(unrealized_pl, position.cost_basis)]

\* variant of the pass: the first quote that fails ends it, no position is
\* revalued
UpdatePositionsAllOrNone(pos, quotes) ==
    [s \in DOMAIN pos |->
        IF \E t \in DOMAIN pos : quotes[t] = QuoteUnavailable
        THEN pos[s] ELSE Revalue(pos[s], quotes[s])]

UpdatePositions(pos, quotes) ==
    [s \in DOMAIN pos |->
        IF quotes[s] = QuoteUnavailable THEN pos[s] ELSE Revalue(pos[s], quotes[s])]

\* the entry of positions_data for one position
PositionData(position) ==
    [quantity |-> position.quantity,
     avg_entry_price |-> position.avg_entry_price,
     current_price |-> position.current_price,
     market_value |-> position.market_value,
     cost_basis |-> position.cost_basis,
     unrealized_pl |-> position.unrealized_pl,
     unrealized_pl_percent |-> position.unrealized_pl_percent]

\* variant of the returned dictionary: total_pl leaves the cash out
PortfolioDictPlOfPositions(c, pos, capital) ==
    LET positions_value == SumMarketValue(pos, DOMAIN pos)
        total_value == c + positions_value
        total_pl == positions_value - capital
    IN  [cash |-> c, positions_value |-> positions_value,
         equity |-> total_value, initial_capital |-> capital,
         total_pl |-> total_pl,
         total_pl_percent |-> IF capital > 0
                              THEN RatMulInt(Rat(total_pl, capital), 100)
                              ELSE RatInt(0),
         positions |-> [s \in DOMAIN pos |-> PositionData(pos[s])]]

\* the dictionary get_portfolio_value returns for the updated ledger
PortfolioDict(c, pos, capital) ==
    LET positions_value == SumMarketValue(pos, DOMAIN pos)
        total_value == c + positions_value
        total_pl == total_value - capital
    IN  [cash |-> c, positions_value |-> positions_value,
         equity |-> total_value, initial_capital |-> capital,
         total_pl |-> total_pl,
         total_pl_percent |-> IF capital > 0
                              THEN RatMulInt(Rat(total_pl, capital), 100)
                              ELSE RatInt(0),
         positions |-> [s \in DOMAIN pos |-> PositionData(pos[s])]]

\* self.positions after _update_positions: every quoted position is
\* revalued and added to the session, then the session is committed
PositionsValued(held, rows, quotes, storage_ok) ==
    LET pos == UpdatePositions(held, quotes)
        added == {s \in DOMAIN pos : quotes[s] # QuoteUnavailable}
    IN  IF CommitOk(added, pos, rows, storage_ok)
        THEN Persisted(added, pos)
        ELSE pos

\* the positions table after _update_positions
RowsValued(held, rows, quotes, storage_ok) ==
    LET pos == UpdatePositions(held, quotes)
        added == {s \in DOMAIN pos : quotes[s] # QuoteUnavailable}
    IN  IF CommitOk(added, pos, rows, storage_ok)
        THEN RowsAfter(added, pos, rows)
        ELSE rows

\* the body of get_portfolio_value: update, commit, build the dictionary
Valuation(quotes, storage_ok) ==
    /\ positions' = PositionsValued(positions, db_positions, quotes, storage_ok)
    /\ db_positions' = RowsValued(positions, db_positions, quotes, storage_ok)
    /\ portfolio' = PortfolioDict(cash, positions', initial_capital)

GetPortfolioValue ==
    /\ pc = "idle"
    /\ \E quotes \in [DOMAIN positions -> Quotes], storage_ok \in BOOLEAN :
          Valuation(quotes, storage_ok)
    /\ saved' = "none"
    /\ cycle' = "none"
    /\ UNCHANGED <<config, cash, orders, pc, pending_orders, pending, results,
                   last_result, snapshots, buy_fills, applied, calls>>
    /\ UNCHANGED outside

(***************************************************************************)
(* take_portfolio_snapshot: the dictionary of get_portfolio_value is       *)
(* copied into a PortfolioSnapshot dated get_eastern_time() and committed  *)
(* through a session of its own.  The date column is unique; the clock     *)
(* does not run backwards, so the date is not before that of the latest    *)
(* row.  A failed commit is rolled back and logged, and the dictionary is  *)
(* returned either way.                                                    *)
(***************************************************************************)
Dates == 1..MaxDate

LatestDate(snaps) ==
    IF snaps = <<>> THEN 1 ELSE snaps[Len(snaps)].date

UniqueDate(date, snaps) == \A k \in 1..Len(snaps) : snaps[k].date # date

PortfolioSnapshot(date, p) ==
    [date |-> date, cash |-> p.cash, equity |-> p.equity,
     total_positions_value |-> p.positions_value, total_pl |-> p.total_pl,
     total_pl_percent |-> p.total_pl_percent, positions_data |-> p.positions]

\* the body of take_portfolio_snapshot, the quotes drawn from Q
SnapshotFrom(Q) ==
    /\ \E quotes \in [DOMAIN positions -> Q], storage_ok \in BOOLEAN :
          Valuation(quotes, storage_ok)
    /\ \E date \in Dates, snapshot_ok \in BOOLEAN :
          /\ date >= LatestDate(snapshots)
          /\ IF snapshot_ok /\ UniqueDate(date, snapshots)
             THEN /\ snapshots' = Append(snapshots,
                                         PortfolioSnapshot(date, portfolio'))
                  /\ saved' = "committed"
             ELSE /\ snapshots' = snapshots
                  /\ saved' = "rolled_back"

Snapshot == SnapshotFrom(Quotes)

TakePortfolioSnapshot ==
    /\ pc = "idle"
    /\ Snapshot
    /\ cycle' = "none"
    /\ UNCHANGED <<config, cash, orders, pc, pending_orders, pending, results,
                   last_result, buy_fills, applied, calls>>
    /\ UNCHANGED outside

(***************************************************************************)
(* Orchestrator.run_trading_cycle, and the trading stage of                *)
(* run_full_cycle: process_pending_orders, then take_portfolio_snapshot,   *)
(* inside one try.  The query of process_pending_orders is not guarded by  *)
(* the trader: when it raises, the except of the cycle logs the error and  *)
(* the cycle returns.                                                      *)
(***************************************************************************)
RunTradingCycle ==
    /\ pc = "idle"
    /\ calls + Len(NewOrderIds(orders)) <= MaxCalls
    /\ \E query_ok \in BOOLEAN :
          IF query_ok
          THEN /\ pending_orders' = NewOrderIds(orders)
               /\ pending' = pending_orders'
               /\ results' = <<>>
               /\ pc' = "processing"
               /\ cycle' = "running"
          ELSE /\ cycle' = "error"
               /\ UNCHANGED <<pending_orders, pending, results, pc>>
    /\ portfolio' = NoPortfolio
    /\ saved' = "none"
    /\ UNCHANGED <<config, cash, positions, orders, db_positions, last_result,
                   snapshots, buy_fills, applied, calls>>
    /\ UNCHANGED outside

\* the loop of process_pending_orders is over: the snapshot is taken and
\* the cycle returns the results
CycleSnapshot ==
    /\ pc = "processing"
    /\ cycle = "running"
    /\ pending = <<>>
    /\ Snapshot
    /\ pc' = "idle"
    /\ pending_orders' = <<>>
    /\ results' = <<>>
    /\ cycle' = "returned"
    /\ UNCHANGED <<config, cash, orders, pending, last_result, buy_fills,
                   applied, calls>>
    /\ UNCHANGED outside

(***************************************************************************)
(* Spec: the trader as the orchestrator drives it, orders created by the   *)
(* fund manager and executed by process_pending_orders.                    *)
(* LedgerSpec: any sequence of direct execute_order calls and valuations.  *)
(***************************************************************************)
Next ==
    \/ CreateOrder
    \/ ProcessPendingOrders
    \/ ExecutePendingOrder
    \/ ReturnResults
    \/ GetPortfolioValue

Spec == Init /\ [][Next]_vars

LedgerNext ==
    \/ ExecuteOrderDict
    \/ GetPortfolioValue

LedgerSpec == Init /\ [][LedgerNext]_vars

(***************************************************************************)
(* LoadedSpec: the same calls on a trader constructed on a database that   *)
(* an earlier run left behind.  _load_portfolio takes cash from the latest *)
(* snapshot and the positions from the positions table; the earlier run    *)
(* bought StoredQuantity MSFT at StoredPrice, committed the fill and took  *)
(* a snapshot.                                                             *)
(***************************************************************************)
StoredSymbol == "MSFT"
StoredQuantity == 1
StoredPrice == 1

StoredPositions ==
    Put(EmptyMap, StoredSymbol,
        [NewPosition(StoredQuantity, StoredPrice) EXCEPT !.persisted = TRUE])

LoadedInit ==
    /\ \E cfg \in TraderConfigs :
          /\ initial_capital = cfg[1]
          /\ max_position_size = cfg[2]
    /\ snapshots = <<PortfolioSnapshot(1,
                        PortfolioDict(initial_capital - StoredQuantity * StoredPrice,
                                      StoredPositions, initial_capital))>>
    /\ cash = snapshots[Len(snapshots)].cash
    /\ db_positions = StoredPositions
    /\ positions = db_positions
    /\ orders = <<>>
    /\ pc = "idle"
    /\ pending_orders = <<>>
    /\ pending = <<>>
    /\ results = <<>>
    /\ last_result = NoResult
    /\ portfolio = NoPortfolio
    /\ saved = "none"
    /\ cycle = "none"
    /\ buy_fills = Put(EmptyMap, StoredSymbol,
                       [quantity |-> StoredQuantity,
                        cost |-> StoredQuantity * StoredPrice,
                        sold |-> FALSE])
    /\ applied = <<>>
    /\ calls = 0
    /\ NoThreads
    /\ NewMarket
    /\ NewManager
    /\ NoCalls

LoadedSpec == LoadedInit /\ [][LedgerNext]_vars

(***************************************************************************)
(* SnapshotSpec: direct execute_order calls, valuations and snapshots.     *)
(***************************************************************************)
SnapshotNext ==
    \/ ExecuteOrderDict
    \/ GetPortfolioValue
    \/ TakePortfolioSnapshot

SnapshotSpec == Init /\ [][SnapshotNext]_vars

(***************************************************************************)
(* CycleSpec: orders created by the fund manager, trading cycles run by    *)
(* the orchestrator.                                                       *)
(***************************************************************************)
CycleNext ==
    \/ CreateOrder
    \/ RunTradingCycle
    \/ ExecutePendingOrder
    \/ CycleSnapshot

CycleSpec == Init /\ [][CycleNext]_vars

(***************************************************************************)
(* RestartSpec: trading cycles, and between them a new PaperTrader         *)
(* constructed on the same database: __init__ followed by _load_portfolio. *)
(***************************************************************************)
\* cash of the latest snapshot, if there is one
LoadedCash(snaps, capital) ==
    IF snaps = <<>> THEN capital ELSE snaps[Len(snaps)].cash

\* the BUY history of a loaded position is not known
LoadedFills(pos) ==
    [s \in DOMAIN pos |-> [quantity |-> 0, cost |-> 0, sold |-> TRUE]]

\* PaperTrader(db=...): cash and positions come from the latest snapshot and
\* from the positions table; when a query raises, the trader starts with the
\* initial capital and no position
Restart ==
    /\ pc = "idle"
    /\ \E load_ok \in BOOLEAN :
          IF load_ok
          THEN /\ cash' = LoadedCash(snapshots, initial_capital)
               /\ positions' = db_positions
          ELSE /\ cash' = initial_capital
               /\ positions' = EmptyMap
    /\ buy_fills' = LoadedFills(positions')
    /\ last_result' = NoResult
    /\ portfolio' = NoPortfolio
    /\ saved' = "none"
    /\ cycle' = "none"
    /\ UNCHANGED <<config, orders, db_positions, pc, pending_orders, pending,
                   results, snapshots, applied, calls>>
    /\ UNCHANGED outside

RestartNext ==
    \/ CreateOrder
    \/ RunTradingCycle
    \/ ExecutePendingOrder
    \/ CycleSnapshot
    \/ Restart

RestartSpec == Init /\ [][RestartNext]_vars

(***************************************************************************)
(* ThreadSpec: the main thread of main() beside the scheduler thread.  A   *)
(* thread is inside an orchestrator method from its call to its return.    *)
(***************************************************************************)
Flags == [no_scheduler : BOOLEAN, run_fund_manager : BOOLEAN,
          run_trading : BOOLEAN, run_once : BOOLEAN]

\* the jobs run_scheduler registers that use the PaperTrader
ScheduledJobs == {"run_full_cycle", "run_trading_cycle",
                  "take_portfolio_snapshot"}

\* the orchestrator methods main() calls that use the PaperTrader
MainCalls == {"run_fund_manager_cycle", "run_trading_cycle",
              "run_full_cycle", "get_portfolio_status"}

ThreadInit ==
    /\ NewTrader
    /\ args \in Flags
    /\ main_pc = "start_scheduler"
    /\ main_call = "none"
    /\ scheduler_running = FALSE
    /\ scheduler_thread = "none"
    /\ job = "none"
    /\ registered = 0
    /\ started = FALSE
    /\ NewMarket
    /\ NewManager
    /\ NoCalls

\* start_scheduler: nothing but a warning while the thread is alive; else the
\* flag is set and a new thread started, which is alive from then on
StartSchedulerCall ==
    /\ IF scheduler_thread # "none"
       THEN UNCHANGED <<scheduler_running, scheduler_thread>>
       ELSE scheduler_running' = TRUE /\ scheduler_thread' = "starting"
    /\ started' = TRUE
    /\ UNCHANGED <<job, registered>>

\* if not args.no_scheduler: orchestrator.start_scheduler()
StartScheduler ==
    /\ main_pc = "start_scheduler"
    /\ IF ~args.no_scheduler
       THEN StartSchedulerCall
       ELSE UNCHANGED <<scheduler_running, scheduler_thread, job,
                        registered, started>>
    /\ main_pc' = "run_fund_manager"
    /\ UNCHANGED <<args, main_call>>

\* run_scheduler up to its loop: the thread adds its six jobs to the job
\* list of the schedule module, which nothing ever clears
RegisterJobs ==
    /\ scheduler_thread = "starting"
    /\ registered' = registered + 1
    /\ scheduler_thread' = "alive"
    /\ UNCHANGED <<args, main_pc, main_call, scheduler_running, job, started>>

\* the main thread reaches step `step`: it enters `method` when the flag is
\* set and goes on to step `next` otherwise
MainStep(step, flag, method, next) ==
    /\ main_pc = step
    /\ main_call = "none"
    /\ IF flag
       THEN main_call' = method /\ UNCHANGED main_pc
       ELSE main_pc' = next /\ UNCHANGED main_call
    /\ UNCHANGED <<args, scheduler_running, scheduler_thread, job>>

\* the step main() takes after the method it is in returns
AfterCall ==
    CASE main_pc = "run_fund_manager" -> "run_trading"
      [] main_pc = "run_trading" -> "run_once"
      [] main_pc = "run_once" -> "get_portfolio_status"
      [] main_pc = "get_portfolio_status" ->
            IF args.run_once \/ args.run_fund_manager \/ args.run_trading
            THEN "close" ELSE "keep_alive"
      [] OTHER -> main_pc

MainCall ==
    \/ MainStep("run_fund_manager", args.run_fund_manager,
                "run_fund_manager_cycle", "run_trading")
    \/ MainStep("run_trading", args.run_trading,
                "run_trading_cycle", "run_once")
    \/ MainStep("run_once", args.run_once,
                "run_full_cycle", "get_portfolio_status")
    \/ MainStep("get_portfolio_status", TRUE,
                "get_portfolio_status", "get_portfolio_status")

MainReturn ==
    /\ main_call # "none"
    /\ main_call' = "none"
    /\ main_pc' = AfterCall
    /\ UNCHANGED <<args, scheduler_running, scheduler_thread, job>>

\* orchestrator.close() and the return of main(): stop_scheduler clears the
\* flag and waits at most five seconds; the daemon thread ends with the process
Close ==
    /\ main_pc = "close"
    /\ main_call = "none"
    /\ scheduler_running' = FALSE
    /\ scheduler_thread' = "none"
    /\ job' = "none"
    /\ started' = FALSE
    /\ main_pc' = "done"
    /\ UNCHANGED <<args, main_call, registered>>

\* schedule.run_pending() finds a job due and calls it
RunPending ==
    /\ scheduler_thread = "alive"
    /\ scheduler_running
    /\ job = "none"
    /\ \E j \in ScheduledJobs : job' = j
    /\ UNCHANGED <<args, main_pc, main_call, scheduler_running,
                   scheduler_thread>>

JobReturn ==
    /\ job # "none"
    /\ job' = "none"
    /\ UNCHANGED <<args, main_pc, main_call, scheduler_running,
                   scheduler_thread>>

trader == <<initial_capital, max_position_size, cash, positions, orders,
            db_positions, pc, pending_orders, pending, results, last_result,
            portfolio, saved, snapshots, cycle, buy_fills, applied, calls>>

ThreadNext ==
    \/ StartScheduler /\ UNCHANGED <<trader, market, manager, exec, full>>
    \/ RegisterJobs /\ UNCHANGED <<trader, market, manager, exec, full>>
    \/ MainCall /\ UNCHANGED <<registered, started, trader, market, manager, exec, full>>
    \/ MainReturn /\ UNCHANGED <<registered, started, trader, market, manager, exec, full>>
    \/ Close /\ UNCHANGED <<trader, market, manager, exec, full>>
    \/ RunPending /\ UNCHANGED <<registered, started, trader, market, manager, exec, full>>
    \/ JobReturn /\ UNCHANGED <<registered, started, trader, market, manager, exec, full>>

ThreadSpec == ThreadInit /\ [][ThreadNext]_vars

(***************************************************************************)
(* SchedulerSpec: start_scheduler and stop_scheduler called in any order   *)
(* on one orchestrator, beside the scheduler thread they start and stop.   *)
(***************************************************************************)
MaxRegistrations == 4

\* orchestrator.start_scheduler() called while fewer than MaxRegistrations
\* threads have registered their jobs
CallStartScheduler ==
    /\ registered < MaxRegistrations
    /\ StartSchedulerCall
    /\ UNCHANGED <<args, main_pc, main_call>>

\* orchestrator.stop_scheduler(): the flag is cleared and the thread joined
\* for five seconds; a thread that is not inside a job sees the flag within
\* the second it sleeps and ends, one inside a job may outlast the join
StopSchedulerCall ==
    /\ scheduler_running' = FALSE
    /\ started' = FALSE
    /\ IF scheduler_thread # "none" /\ job = "none"
       THEN /\ scheduler_thread' = "none"
            /\ registered' = IF scheduler_thread = "starting"
                             THEN registered + 1 ELSE registered
       ELSE UNCHANGED <<scheduler_thread, registered>>
    /\ UNCHANGED <<args, main_pc, main_call, job>>

\* while self.scheduler_running: the thread finds the flag cleared and ends
ThreadExit ==
    /\ scheduler_thread = "alive"
    /\ job = "none"
    /\ ~scheduler_running
    /\ scheduler_thread' = "none"
    /\ UNCHANGED <<args, main_pc, main_call, scheduler_running, job,
                   registered, started>>

SchedulerNext ==
    \/ CallStartScheduler /\ UNCHANGED <<trader, market, manager, exec, full>>
    \/ StopSchedulerCall /\ UNCHANGED <<trader, market, manager, exec, full>>
    \/ RegisterJobs /\ UNCHANGED <<trader, market, manager, exec, full>>
    \/ RunPending /\ UNCHANGED <<registered, started, trader, market, manager, exec, full>>
    \/ JobReturn /\ UNCHANGED <<registered, started, trader, market, manager, exec, full>>
    \/ ThreadExit /\ UNCHANGED <<trader, market, manager, exec, full>>

SchedulerSpec == Init /\ [][SchedulerNext]_vars

(***************************************************************************)
(* CacheSpec and PriceSpec: MarketData.get_historical_data with its cache, *)
(* and MarketData.get_current_price with its two sources.  The clock       *)
(* counts half hours.                                                      *)
(***************************************************************************)
MaxTime == 2

\* timedelta(hours=1), in half hours
Hour == 2

\* the symbols asked for, one of them holding the separator of the cache key
HistorySymbols == {"BRK", "BRK_1y"}

\* the periods and the interval the callers pass
Periods == {"1y", "3mo"}
Intervals == {"1d"}

Requests == HistorySymbols \X Periods \X Intervals

\* what a source answers: an exception, an empty frame, or data
SourceRaises == -1
EmptyFrame == 0
Frames == {1, 2}
HistoryAnswers == {SourceRaises, EmptyFrame} \cup Frames
PrimaryAnswers == {SourceRaises, EmptyFrame} \cup Prices
FallbackAnswers == {SourceRaises} \cup Prices

\* cache_key = f"{symbol}_{period}_{interval}"
CacheKey(symbol, period, interval) ==
    symbol \o "_" \o period \o "_" \o interval

\* variants of the age test: an entry exactly one hour old is still served
FreshOrHourOld(cached_time, t) == t - cached_time <= Hour

\* datetime.now() - cached_time < timedelta(hours=1)
Fresh(cached_time, t) == t - cached_time < Hour

\* the entry of the cache that get_historical_data serves at time t, if any
Served(cache, key, t) == key \in DOMAIN cache /\ Fresh(cache[key][1], t)

\* MarketData.get_historical_data(symbol, period, interval); the provider
\* answers `answer` after `delay` half hours when it is called
GetHistoricalData ==
    \E request \in Requests, answer \in HistoryAnswers, delay \in 0..1 :
       LET key == CacheKey(request[1], request[2], request[3])
       IN  IF Served(cached_data, key, now)
           THEN /\ history' = [request |-> request, outcome |-> "cached",
                               data |-> cached_data[key][2], provider |-> FALSE,
                               expired |-> FALSE]
                /\ UNCHANGED <<cached_data, fetched, now>>
           ELSE /\ now + delay <= MaxTime
                /\ now' = now + delay
                /\ IF answer \in Frames
                   THEN /\ cached_data' = Put(cached_data, key, <<now', answer>>)
                        /\ fetched' = Put(fetched, request, <<now', answer>>)
                        /\ history' = [request |-> request, outcome |-> "fetched",
                                       data |-> answer, provider |-> TRUE,
                                       expired |-> key \in DOMAIN cached_data]
                   ELSE /\ history' = [request |-> request, outcome |-> "raised",
                                       data |-> EmptyFrame, provider |-> TRUE,
                                       expired |-> key \in DOMAIN cached_data]
                        /\ UNCHANGED <<cached_data, fetched>>

\* a variant that answers with a default price when both sources fail
CurrentPriceOrDefault(primary, fallback) ==
    IF primary \in Prices
    THEN [outcome |-> "returned", value |-> primary, fallback |-> FALSE]
    ELSE IF fallback \in Prices
         THEN [outcome |-> "returned", value |-> fallback, fallback |-> TRUE]
         ELSE [outcome |-> "returned", value |-> NoPrice, fallback |-> TRUE]

\* MarketData.get_current_price: the last close of the primary source, else
\* the latest trade of the fallback source, else the exception of the fallback
CurrentPrice(primary, fallback) ==
    IF primary \in Prices
    THEN [outcome |-> "returned", value |-> primary, fallback |-> FALSE]
    ELSE IF fallback \in Prices
         THEN [outcome |-> "returned", value |-> fallback, fallback |-> TRUE]
         ELSE [outcome |-> "raised", value |-> NoPrice, fallback |-> TRUE]

GetCurrentPrice ==
    \E symbol \in Symbols, primary \in PrimaryAnswers,
       fallback \in FallbackAnswers :
       price' = [symbol |-> symbol, primary |-> primary,
                 fallback |-> fallback,
                 answer |-> CurrentPrice(primary, fallback)]

\* time passes
Tick ==
    /\ now < MaxTime
    /\ now' = now + 1

\* the historical data service over time
CacheNext ==
    \/ GetHistoricalData /\ price' = NoQuote
          /\ UNCHANGED <<trader, threads, manager, exec, full>>
    \/ Tick /\ history' = NoHistory /\ price' = NoQuote
          /\ UNCHANGED <<cached_data, fetched, trader, threads, manager, exec, full>>

CacheSpec == Init /\ [][CacheNext]_vars

\* the current price service over time
PriceNext ==
    \/ GetCurrentPrice /\ history' = NoHistory
          /\ UNCHANGED <<cached_data, fetched, now, trader, threads, manager, exec, full>>
    \/ Tick /\ history' = NoHistory /\ price' = NoQuote
          /\ UNCHANGED <<cached_data, fetched, trader, threads, manager, exec, full>>

PriceSpec == Init /\ [][PriceNext]_vars

(***************************************************************************)
(* ManagerSpec: analysts save recommendations and the fund manager         *)
(* evaluates the pending ones, one iteration of its loop per step.         *)
(***************************************************************************)
MaxRecommendations == 2

\* None in a nullable column or a null in the JSON of a decision, and a key
\* the JSON does not hold
NoQuantity == -1
Absent == -2

RecommendedQuantities == Quantities \cup {NoQuantity}
ModifiedQuantities == Quantities \cup {NoQuantity, Absent}
Decisions == {"APPROVE", "MODIFY", "REJECT"}

\* the JSON object the model answers
DecisionData == [decision : Decisions, modified_quantity : ModifiedQuantities]

\* BaseAnalyst._save_recommendation
SaveRecommendation ==
    /\ manager_pc = "idle"
    /\ Len(recommendations) < MaxRecommendations
    /\ \E symbol \in Symbols, side \in Sides,
          quantity \in RecommendedQuantities :
          recommendations' = Append(recommendations,
                                    [symbol |-> symbol, side |-> side,
                                     quantity |-> quantity])
    /\ evaluation' = NoEvaluation
    /\ UNCHANGED <<decisions, pending_recommendations, evaluations,
                   manager_pc>>

\* Recommendation.decisions.any()
Decided(id) == \E k \in 1..Len(decisions) : decisions[k].recommendation_id = id

\* the recommendations without a decision, in the order of the table
PendingIds ==
    LET ids == [i \in 1..Len(recommendations) |-> i]
        Undecided(id) == ~Decided(id)
    IN  SelectSeq(ids, Undecided)

\* evaluate_pending_recommendations up to its loop
StartEvaluation ==
    /\ manager_pc = "idle"
    /\ pending_recommendations' = PendingIds
    /\ evaluations' = <<>>
    /\ manager_pc' = "evaluating"
    /\ evaluation' = NoEvaluation
    /\ UNCHANGED <<recommendations, decisions>>

\* decision == 'APPROVE' or decision == 'MODIFY'
Approved(decision) == decision \in {"APPROVE", "MODIFY"}

\* the row _save_decision adds; .get('modified_quantity') is None without key
ManagerDecision(recommendation_id, decision_data) ==
    [recommendation_id |-> recommendation_id,
     approved |-> Approved(decision_data.decision),
     modified_quantity |->
         IF decision_data.modified_quantity = Absent
         THEN NoQuantity ELSE decision_data.modified_quantity]

\* rec.side.value.upper()
Upper(side) == IF side = "buy" THEN "BUY" ELSE "SELL"

\* OrderSideEnum.BUY if side_str == 'BUY' else OrderSideEnum.SELL
OrderSide(side_str) == IF side_str = "BUY" THEN "buy" ELSE "sell"

\* decision.get('modified_quantity', recommendation.get('quantity', 0)): the
\* value under the key when the key is there, null included
OrderQuantity(recommendation, decision_data) ==
    IF decision_data.modified_quantity # Absent
    THEN decision_data.modified_quantity
    ELSE recommendation.quantity

\* the Order create_order builds
NewOrder(recommendation, decision_data) ==
    [symbol |-> recommendation.symbol,
     side |-> OrderSide(Upper(recommendation.side)),
     type |-> "market",
     quantity |-> OrderQuantity(recommendation, decision_data),
     status |-> "new",
     filled_quantity |-> 0,
     filled_avg_price |-> NoPrice]

\* Order.quantity is not nullable
Insertable(order) == order.quantity # NoQuantity

\* one iteration of the loop of evaluate_pending_recommendations: the model
\* answers or the call raises; evaluate_recommendation saves the decision, the
\* loop saves it again and creates the order of an approved one; each commit
\* succeeds or is rolled back
EvaluateRecommendation ==
    /\ manager_pc = "evaluating"
    /\ pending_recommendations # <<>>
    /\ pending_recommendations' = Tail(pending_recommendations)
    /\ LET id == Head(pending_recommendations)
           rec == recommendations[id]
       IN  \E answered \in BOOLEAN, decision_data \in DecisionData,
              first_ok \in BOOLEAN, second_ok \in BOOLEAN,
              order_ok \in BOOLEAN :
              IF ~answered
              THEN /\ evaluation' = [recommendation_id |-> id,
                                     decision |-> "error",
                                     modified_quantity |-> Absent]
                   /\ UNCHANGED <<decisions, orders, applied, evaluations>>
              ELSE LET row == ManagerDecision(id, decision_data)
                       first == IF first_ok THEN Append(decisions, row)
                                ELSE decisions
                       order == NewOrder(rec, decision_data)
                       create == second_ok /\ Approved(decision_data.decision)
                                    /\ order_ok /\ Insertable(order)
                   IN  /\ decisions' = IF second_ok THEN Append(first, row)
                                       ELSE first
                       /\ orders' = IF create THEN Append(orders, order)
                                    ELSE orders
                       /\ applied' = IF create THEN Append(applied, 0)
                                     ELSE applied
                       /\ evaluations' =
                             Append(evaluations, <<id, decision_data.decision>>)
                       /\ evaluation' =
                             [recommendation_id |-> id,
                              decision |-> decision_data.decision,
                              modified_quantity |->
                                  decision_data.modified_quantity]
    /\ UNCHANGED <<recommendations, manager_pc>>

\* return results
ReturnEvaluations ==
    /\ manager_pc = "evaluating"
    /\ pending_recommendations = <<>>
    /\ manager_pc' = "idle"
    /\ evaluation' = NoEvaluation
    /\ UNCHANGED <<recommendations, decisions, pending_recommendations,
                   evaluations>>

\* what the fund manager leaves alone in the trader
ledger == <<initial_capital, max_position_size, cash, positions,
            db_positions, pc, pending_orders, pending, results, last_result,
            portfolio, saved, snapshots, cycle, buy_fills, calls>>

ManagerNext ==
    \/ SaveRecommendation
          /\ UNCHANGED <<ledger, orders, applied, threads, market, exec, full>>
    \/ StartEvaluation
          /\ UNCHANGED <<ledger, orders, applied, threads, market, exec, full>>
    \/ EvaluateRecommendation /\ UNCHANGED <<ledger, threads, market, exec, full>>
    \/ ReturnEvaluations
          /\ UNCHANGED <<ledger, orders, applied, threads, market, exec, full>>

ManagerSpec == Init /\ [][ManagerNext]_vars

(***************************************************************************)
(* ScenarioSpec: a trader with the capital and the position limit of the   *)
(* settings, given AAPL orders of 5, 10 or 15 shares at 150, 160 or 170.   *)
(***************************************************************************)
ScenarioCalls == 3

ScenarioCapital == 100000
ScenarioMaxPositionSize == <<1, 20>>
ScenarioSymbol == "AAPL"
ScenarioQuantities == {5, 10, 15}
ScenarioPrices == {150, 160, 170}

ScenarioInit ==
    /\ Constructed(ScenarioCapital, ScenarioMaxPositionSize)
    /\ NoThreads
    /\ NewMarket
    /\ NewManager
    /\ NoCalls

\* execute_order called with a dictionary order of the scenario
ScenarioOrder ==
    /\ pc = "idle"
    /\ calls < ScenarioCalls
    /\ \E side \in Sides, quantity \in ScenarioQuantities,
          quote \in ScenarioPrices \cup {QuoteUnavailable} :
            ExecuteOrder(0, ScenarioSymbol, side, quantity, quote)
    /\ UNCHANGED <<pc, pending_orders, pending, results>>
    /\ UNCHANGED outside

ScenarioSpec == ScenarioInit /\ [][ScenarioOrder]_vars

(***************************************************************************)
(* ValuationSpec: the loaded trader given up to three orders, so that one  *)
(* holding has been sold down while another symbol is held, and valued in  *)
(* between.                                                                *)
(***************************************************************************)
ValuationCalls == 3

\* execute_order called directly with a dictionary order
ExecuteValuedOrder ==
    /\ pc = "idle"
    /\ calls < ValuationCalls
    /\ \E symbol \in Symbols, side \in Sides, quantity \in Quantities,
          quote \in Quotes :
            ExecuteOrder(0, symbol, side, quantity, quote)
    /\ UNCHANGED <<pc, pending_orders, pending, results>>
    /\ UNCHANGED outside

ValuationNext ==
    \/ ExecuteValuedOrder
    \/ GetPortfolioValue

ValuationSpec == LoadedInit /\ [][ValuationNext]_vars

(***************************************************************************)
(* RaceSpec: execute_order entered by two threads on the one PaperTrader   *)
(* of the orchestrator (the scheduler thread inside run_trading_cycle, the *)
(* main thread inside run_trading_cycle or run_full_cycle).  No lock       *)
(* guards the trader, so the statements of the two calls interleave: the   *)
(* quote, the affordability test, the position-size test, the debit and    *)
(* the position update with its commit are steps of their own.  The        *)
(* orders are BUYs given as dictionaries.                                  *)
(***************************************************************************)
\* what execute_order returns to thread t, which leaves the call
ExecReturn(t, reason) ==
    /\ last_result' = [success |-> reason = "executed", reason |-> reason,
                       symbol |-> exec[t].symbol, side |-> "buy",
                       quantity |-> exec[t].quantity,
                       price |-> exec[t].current_price]
    /\ exec' = [exec EXCEPT ![t] = NotExecuting]

\* symbol, side, quantity = ...; current_price = get_current_price(symbol)
EnterExecuteOrder(t) ==
    /\ exec[t].at = "idle"
    /\ calls < MaxCalls
    /\ calls' = calls + 1
    /\ \E symbol \in Symbols, quantity \in Quantities, quote \in Quotes :
        IF quote = QuoteUnavailable
        THEN /\ last_result' = [success |-> FALSE, reason |-> "error",
                                symbol |-> symbol, side |-> "buy",
                                quantity |-> quantity, price |-> quote]
             /\ UNCHANGED exec
        ELSE /\ exec' = [exec EXCEPT ![t] = [at |-> "check_cash",
                                             symbol |-> symbol,
                                             quantity |-> quantity,
                                             current_price |-> quote]]
             /\ UNCHANGED last_result
    /\ NoValuation
    /\ UNCHANGED <<config, cash, positions, orders, db_positions, pc,
                   pending_orders, pending, results, snapshots, buy_fills,
                   applied>>

\* cost = current_price * quantity; if cost > self.cash: return failure
CheckCash(t) ==
    /\ exec[t].at = "check_cash"
    /\ IF InsufficientCash(exec[t].current_price * exec[t].quantity, cash)
       THEN ExecReturn(t, "insufficient_cash")
       ELSE /\ exec' = [exec EXCEPT ![t].at = "check_size"]
            /\ UNCHANGED last_result
    /\ UNCHANGED <<config, cash, positions, orders, db_positions, pc,
                   pending_orders, pending, results, snapshots, buy_fills,
                   applied, calls, portfolio, saved, cycle>>

\* portfolio_value = self.cash + sum(...); if trade_percent > max: return
CheckPositionSize(t) ==
    /\ exec[t].at = "check_size"
    /\ IF ExceedsMaxPositionSize(exec[t].current_price * exec[t].quantity,
                                 PortfolioValue(cash, positions),
                                 max_position_size)
       THEN ExecReturn(t, "position_size")
       ELSE /\ exec' = [exec EXCEPT ![t].at = "debit"]
            /\ UNCHANGED last_result
    /\ UNCHANGED <<config, cash, positions, orders, db_positions, pc,
                   pending_orders, pending, results, snapshots, buy_fills,
                   applied, calls, portfolio, saved, cycle>>

\* self.cash -= current_price * quantity
DebitCash(t) ==
    /\ exec[t].at = "debit"
    /\ cash' = CashAfter("buy", exec[t].quantity, exec[t].current_price, cash)
    /\ exec' = [exec EXCEPT ![t].at = "update_position"]
    /\ UNCHANGED <<config, positions, orders, db_positions, pc,
                   pending_orders, pending, results, snapshots, buy_fills,
                   applied, calls, portfolio, saved, cycle, last_result>>

\* the position is created or added to, the session commits, success returns
UpdatePosition(t) ==
    /\ exec[t].at = "update_position"
    /\ \E storage_ok \in BOOLEAN :
        LET symbol == exec[t].symbol
            pos == PositionsAfter(symbol, "buy", exec[t].quantity,
                                  exec[t].current_price, positions)
            ok == CommitOk({symbol}, pos, db_positions, storage_ok)
        IN  /\ buy_fills' = FillsAfter(symbol, "buy", exec[t].quantity,
                                       exec[t].current_price, positions,
                                       buy_fills)
            /\ positions' = IF ok THEN Persisted({symbol}, pos) ELSE pos
            /\ db_positions' = IF ok THEN RowsAfter({symbol}, pos, db_positions)
                               ELSE db_positions
    /\ ExecReturn(t, "executed")
    /\ UNCHANGED <<config, cash, orders, pc, pending_orders, pending,
                   results, snapshots, applied, calls, portfolio, saved,
                   cycle>>

RaceNext ==
    \E t \in ExecThreads :
        /\ \/ EnterExecuteOrder(t)
           \/ CheckCash(t)
           \/ CheckPositionSize(t)
           \/ DebitCash(t)
           \/ UpdatePosition(t)
        /\ UNCHANGED <<threads, market, manager, full>>

RaceSpec == Init /\ [][RaceNext]_vars

(***************************************************************************)
(* ProgressSpec: trading cycles repeated for ever, as the scheduler's      *)
(* hourly job repeats them, over the orders the fund manager creates.      *)
(* Every quote of an order's symbol is available.  The cycle's query       *)
(* succeeds again and again, the loop of process_pending_orders goes on    *)
(* to its end and the snapshot follows it (weak fairness of the three      *)
(* steps).  The counters of calls and of executions stand still, so that   *)
(* the cycles can repeat without end.                                      *)
(***************************************************************************)
ProgressCapital == 3

ProgressQuotes == {1}

ProgressInit ==
    /\ Constructed(ProgressCapital, <<1, 1>>)
    /\ NoThreads
    /\ NewMarket
    /\ NewManager
    /\ NoCalls

\* one iteration of the loop of process_pending_orders, the quote available
ProgressExecute ==
    /\ pc = "processing"
    /\ pending # <<>>
    /\ LET order == orders[Head(pending)]
       IN  \E quote \in ProgressQuotes :
              ExecuteOrderBody(Head(pending), order.symbol, order.side,
                               order.quantity, quote)
    /\ pending' = Tail(pending)
    /\ results' = Append(results, last_result')
    /\ UNCHANGED <<pc, pending_orders, applied, calls>>
    /\ UNCHANGED outside

\* the loop is over: the snapshot is taken, every quote available, and the
\* cycle returns the results
ProgressSnapshot ==
    /\ pc = "processing"
    /\ cycle = "running"
    /\ pending = <<>>
    /\ SnapshotFrom(ProgressQuotes)
    /\ pc' = "idle"
    /\ pending_orders' = <<>>
    /\ results' = <<>>
    /\ cycle' = "returned"
    /\ UNCHANGED <<config, cash, orders, pending, last_result, buy_fills,
                   applied, calls>>
    /\ UNCHANGED outside

ProgressNext ==
    \/ CreateOrder
    \/ RunTradingCycle
    \/ ProgressExecute
    \/ ProgressSnapshot

ProgressSpec ==
    /\ ProgressInit
    /\ [][ProgressNext]_vars
    /\ WF_vars(RunTradingCycle /\ cycle' = "running")
    /\ WF_vars(ProgressExecute)
    /\ WF_vars(ProgressSnapshot)

(***************************************************************************)
(* FullCycleSpec: Orchestrator.run_full_cycle(force_run).  The call        *)
(* returns at once when the market is closed and the run is not forced;    *)
(* otherwise the analysts save their recommendations, the fund manager     *)
(* values the portfolio and evaluates the pending recommendations, and     *)
(* the trading stage processes the pending orders and takes the snapshot.  *)
(* An exception that leaves a stage ends the cycle with an error status.   *)
(***************************************************************************)
MaxFullRecommendations == 1

\* the stages inside the try of run_full_cycle
Stages == {"analysts", "fund_manager", "trading"}

\* variant of the test: force_run is not looked at
SkipsCycleWhenClosed(force_run, market_open) == ~market_open

\* not force_run and not self.market_data.is_market_open()
SkipsCycle(force_run, market_open) == ~force_run /\ ~market_open

\* the call and its first test; is_market_open answers from the clock of
\* the broker or, failing that, from the local time, and does not raise
RunFullCycle ==
    /\ full.status \notin Stages
    /\ pc = "idle"
    /\ manager_pc = "idle"
    /\ \E force_run \in BOOLEAN, market_open \in BOOLEAN :
          full' = [status |-> IF SkipsCycle(force_run, market_open)
                              THEN "skipped" ELSE "analysts",
                   force_run |-> force_run,
                   market_open |-> market_open]
    /\ UNCHANGED <<trader, threads, market, manager, exec>>

\* analyst.analyze_stock(symbol) saves a recommendation
FullCycleAnalyze ==
    /\ full.status = "analysts"
    /\ Len(recommendations) < MaxFullRecommendations
    /\ SaveRecommendation
    /\ UNCHANGED <<trader, threads, market, exec, full>>

\* get_portfolio_value, then evaluate_pending_recommendations up to its
\* loop; its query is not guarded and ends the cycle when it raises
FullCycleFundManager ==
    /\ full.status = "analysts"
    /\ \E quotes \in [DOMAIN positions -> Quotes], storage_ok \in BOOLEAN :
          Valuation(quotes, storage_ok)
    /\ saved' = "none"
    /\ cycle' = "none"
    /\ \E query_ok \in BOOLEAN :
          IF query_ok
          THEN /\ StartEvaluation
               /\ full' = [full EXCEPT !.status = "fund_manager"]
          ELSE /\ full' = [full EXCEPT !.status = "error"]
               /\ UNCHANGED manager
    /\ UNCHANGED <<config, cash, orders, pc, pending_orders, pending, results,
                   last_result, snapshots, buy_fills, applied, calls>>
    /\ UNCHANGED <<threads, market, exec>>

\* one iteration of the loop of evaluate_pending_recommendations
FullCycleEvaluate ==
    /\ full.status = "fund_manager"
    /\ EvaluateRecommendation
    /\ UNCHANGED <<ledger, threads, market, exec, full>>

\* the evaluations are returned and the trading stage begins
FullCycleEvaluated ==
    /\ full.status = "fund_manager"
    /\ ReturnEvaluations
    /\ full' = [full EXCEPT !.status = "trading"]
    /\ UNCHANGED <<trader, threads, market, exec>>

\* process_pending_orders up to its loop
FullCycleTrading ==
    /\ full.status = "trading"
    /\ cycle = "none"
    /\ RunTradingCycle

\* one iteration of the loop of process_pending_orders
FullCycleExecute ==
    /\ full.status = "trading"
    /\ ExecutePendingOrder

\* take_portfolio_snapshot
FullCycleSnapshot ==
    /\ full.status = "trading"
    /\ CycleSnapshot

\* return results, or the error status of the except
FullCycleReturn ==
    /\ full.status = "trading"
    /\ pc = "idle"
    /\ cycle \in {"returned", "error"}
    /\ full' = [full EXCEPT !.status = IF cycle = "returned" THEN "completed"
                                       ELSE "error"]
    /\ UNCHANGED <<trader, threads, market, manager, exec>>

FullCycleNext ==
    \/ RunFullCycle
    \/ FullCycleAnalyze
    \/ FullCycleFundManager
    \/ FullCycleEvaluate
    \/ FullCycleEvaluated
    \/ FullCycleTrading
    \/ FullCycleExecute
    \/ FullCycleSnapshot
    \/ FullCycleReturn

FullCycleSpec == Init /\ [][FullCycleNext]_vars

(***************************************************************************)
(* Vocabulary of the properties.                                           *)
(***************************************************************************)
\* this step is an execute_order call; last_result' is what it returned
Called == calls' = calls + 1

\* the call obtained a quote
Quoted(r) == r.price # QuoteUnavailable

LedgerUnchanged == cash' = cash /\ positions' = positions

RECURSIVE TotalMarketValue(_, _)
TotalMarketValue(pos, S) ==
    IF S = {} THEN 0
    ELSE LET s == CHOOSE x \in S : TRUE
         IN  pos[s].market_value + TotalMarketValue(pos, S \ {s})

RECURSIVE TotalCostBasis(_, _)
TotalCostBasis(pos, S) ==
    IF S = {} THEN RatInt(0)
    ELSE LET s == CHOOSE x \in S : TRUE
         IN  RatAdd(pos[s].cost_basis, TotalCostBasis(pos, S \ {s}))

\* cash + sum of cost_basis over all held positions
ValueAtCost(c, pos) == RatAdd(RatInt(c), TotalCostBasis(pos, DOMAIN pos))

\* cash + sum of market_value over all held positions
Equity(c, pos) == c + TotalMarketValue(pos, DOMAIN pos)

(***************************************************************************)
(* C1.  No negative cash: in every state reached by execute_order calls    *)
(* made one at a time from an initial cash >= 0, cash >= 0.                *)
(***************************************************************************)
NoNegativeCash == cash >= 0

\* a BUY has spent the last of the cash
CashSpentToZero ==
    /\ cash = 0
    /\ initial_capital > 0
    /\ last_result.success
    /\ last_result.side = "buy"

PositionSizeCap ==
    [][(/\ Called
        /\ last_result'.success
        /\ last_result'.side = "buy"
        /\ max_position_size = <<1, 20>>)
       => positions'[last_result'.symbol].market_value * 20
              <= Equity(cash', positions')]_vars

(***************************************************************************)
(* C4.  An order that execute_order rejects on a risk check gets status    *)
(* REJECTED, so that the query of process_pending_orders does not select   *)
(* it again.                                                               *)
(***************************************************************************)
RejectedIsTerminal ==
    [][(/\ pc = "processing"
        /\ Called
        /\ last_result'.reason \in Rejections)
       => /\ orders'[Head(pending)].status = "rejected"
          /\ \A i \in 1..Len(NewOrderIds(orders')) :
                NewOrderIds(orders')[i] # Head(pending)]_vars

(***************************************************************************)
(* C5.  Affordability: a BUY whose quantity * price exceeds cash returns   *)
(* success = False with the insufficient-cash message and leaves cash and  *)
(* positions unchanged; a BUY with quantity * price <= cash is never       *)
(* rejected for insufficient cash.                                         *)
(***************************************************************************)
Affordability ==
    [][(Called /\ last_result'.side = "buy" /\ Quoted(last_result')) =>
         LET r == last_result'
         IN  IF r.quantity * r.price > cash
             THEN /\ ~r.success
                  /\ r.reason = "insufficient_cash"
                  /\ LedgerUnchanged
             ELSE r.reason # "insufficient_cash"]_vars

\* a BUY has been rejected for insufficient cash
RejectedForCash ==
    /\ last_result.reason = "insufficient_cash"
    /\ last_result.quantity * last_result.price > cash

(***************************************************************************)
(* C6.  Position-size check: an affordable BUY whose quantity * price is   *)
(* more than max_position_size of cash + sum of market_value returns       *)
(* success = False with the position-size message and leaves cash and      *)
(* positions unchanged; a SELL is never rejected by this check, nor is a   *)
(* BUY at or below the fraction.                                           *)
(***************************************************************************)
PositionSizeCheck ==
    [][(Called /\ Quoted(last_result')) =>
         LET r == last_result'
             trade_value == r.quantity * r.price
             over == trade_value * max_position_size[2]
                        > max_position_size[1] * Equity(cash, positions)
         IN  /\ (r.side = "buy" /\ trade_value <= cash /\ over)
                   => /\ ~r.success
                      /\ r.reason = "position_size"
                      /\ LedgerUnchanged
             /\ (r.side = "sell") => r.reason # "position_size"
             /\ (r.side = "buy" /\ ~over) => r.reason # "position_size"]_vars

\* an affordable BUY has been rejected for its size
RejectedForSize ==
    /\ last_result.reason = "position_size"
    /\ last_result.quantity * last_result.price <= cash

(***************************************************************************)
(* C7.  Holdings check: a SELL of a symbol with no open position, or of    *)
(* more shares than held, returns success = False and leaves cash and     *)
(* positions unchanged; a SELL of at most the held quantity is filled.     *)
(***************************************************************************)
HoldingsCheck ==
    [][(Called /\ last_result'.side = "sell" /\ Quoted(last_result')) =>
         LET r == last_result'
         IN  IF r.symbol \notin DOMAIN positions
             THEN ~r.success /\ r.reason = "no_position" /\ LedgerUnchanged
             ELSE IF positions[r.symbol].quantity < r.quantity
             THEN ~r.success /\ r.reason = "insufficient_shares"
                  /\ LedgerUnchanged
             ELSE r.success]_vars

\* a SELL of more shares than held has been rejected
RejectedForShares ==
    /\ last_result.reason = "insufficient_shares"
    /\ last_result.symbol \in DOMAIN positions
    /\ positions[last_result.symbol].quantity < last_result.quantity

CostBasisInvariant ==
    \A s \in DOMAIN positions :
        positions[s].cost_basis
            = RatMulInt(positions[s].avg_entry_price, positions[s].quantity)

\* a position that has been reduced by a partial SELL
PartlySold == \E s \in DOMAIN positions : buy_fills[s].sold

(***************************************************************************)
(* C10.  A successful fill of a persisted order sets the order's status    *)
(* to FILLED, filled_quantity to the order quantity and filled_avg_price   *)
(* to the price used for the cash and position mutation.                   *)
(***************************************************************************)
FillMarksOrder ==
    [][(/\ pc = "processing"
        /\ Called
        /\ last_result'.success)
       => LET o == orders'[Head(pending)]
          IN  /\ o.status = "filled"
              /\ o.filled_quantity = o.quantity
              /\ o.filled_avg_price = last_result'.price]_vars

(***************************************************************************)
(* C11.  A quote failure is retryable and free of side effects: when       *)
(* get_current_price fails for the symbol of a stored order, execute_order *)
(* returns success = False, the order stays NEW, cash and positions are    *)
(* unchanged, and every call of process_pending_orders selects every order *)
(* that is NEW, so the order is executed again by the next call.           *)
(***************************************************************************)
QuoteFailureRetryable ==
    [][/\ (pc = "processing" /\ Called /\ ~Quoted(last_result'))
            => /\ ~last_result'.success
               /\ orders' = orders
               /\ orders'[Head(pending)].status = "new"
               /\ LedgerUnchanged
       /\ (pc = "idle" /\ pc' = "processing")
            => \A i \in 1..Len(orders) :
                  orders[i].status = "new"
                     => \E k \in 1..Len(pending') : pending'[k] = i]_vars

\* the only order failed for want of a quote and is selected again
RetriedAfterQuoteFailure ==
    /\ pc = "processing"
    /\ Len(orders) = 1
    /\ pending = <<1>>
    /\ calls = 1
    /\ last_result.reason = "error"
    /\ ~Quoted(last_result)

(***************************************************************************)
(* C12.  Any failure during the execution of a stored order, a failed      *)
(* commit of the fill included, leaves the order NEW and is reported as    *)
(* success = False: an execution that leaves its order NEW never returns   *)
(* success = True.                                                         *)
(***************************************************************************)
FailureReported ==
    [][(/\ pc = "processing"
        /\ Called
        /\ orders'[Head(pending)].status = "new")
       => ~last_result'.success]_vars

(***************************************************************************)
(* C13.  process_pending_orders executes every order that is NEW when it   *)
(* is called exactly once in that call and returns exactly one result per  *)
(* such order, in the order processed; a failed execution (no quote, a     *)
(* rejection, an exception) does not keep the remaining orders of the      *)
(* batch from being executed.                                              *)
(***************************************************************************)
ResultOf(r, order) ==
    /\ r.symbol = order.symbol
    /\ r.side = order.side
    /\ r.quantity = order.quantity

Terminal == {"filled", "rejected"}

OrderLifecycle ==
    [][/\ Len(orders') >= Len(orders)
       /\ \A i \in 1..Len(orders) :
            /\ orders'[i].status # orders[i].status
                  => orders[i].status = "new" /\ orders'[i].status \in Terminal
            /\ orders[i].status \in Terminal
                  => /\ orders'[i] = orders[i]
                     /\ ~(pc = "processing" /\ Called /\ Head(pending) = i)
                     /\ (pc = "idle" /\ pc' = "processing")
                           => \A k \in 1..Len(pending_orders') :
                                 pending_orders'[k] # i]_vars

\* a later call of process_pending_orders works on a batch that leaves out
\* an order filled before
FilledOrderLeftOut ==
    /\ pc = "processing"
    /\ pending_orders # <<>>
    /\ \E i \in 1..Len(orders) :
          /\ orders[i].status = "filled"
          /\ orders[i].filled_quantity = orders[i].quantity
          /\ \A k \in 1..Len(pending_orders) : pending_orders[k] # i

(***************************************************************************)
(* C15.  Sell-to-zero closes the position: a successful SELL of exactly    *)
(* the held quantity removes the symbol from the position map, so that no  *)
(* position of quantity zero remains, and credits cash by                  *)
(* quantity * price.                                                       *)
(***************************************************************************)
SellToZero ==
    [][(/\ Called
        /\ last_result'.success
        /\ last_result'.side = "sell"
        /\ positions[last_result'.symbol].quantity = last_result'.quantity)
       => LET r == last_result'
          IN  /\ r.symbol \notin DOMAIN positions'
              /\ DOMAIN positions' = DOMAIN positions \ {r.symbol}
              /\ cash' = cash + r.quantity * r.price]_vars

\* a whole holding has been sold above its cost
ClosedAtProfit ==
    /\ last_result.success
    /\ last_result.side = "sell"
    /\ last_result.symbol \notin DOMAIN positions
    /\ cash > initial_capital

PositiveQuantities ==
    \A s \in DOMAIN positions : positions[s].quantity > 0

(***************************************************************************)
(* C18.  Derived-field consistency: in every state reachable by fills and  *)
(* valuations every held position has                                      *)
(* market_value = quantity * current_price, current_price being the field  *)
(* stored in the position, and unrealized_pl = market_value - cost_basis;  *)
(* in particular right after a partial SELL at a price that differs from   *)
(* the price of the last valuation.                                        *)
(***************************************************************************)
DerivedFields ==
    \A s \in DOMAIN positions :
        /\ positions[s].market_value
              = positions[s].quantity * positions[s].current_price
        /\ positions[s].unrealized_pl
              = RatSub(RatInt(positions[s].market_value), positions[s].cost_basis)

(***************************************************************************)
(* C19.  Every dictionary returned by get_portfolio_value or               *)
(* take_portfolio_snapshot and every persisted snapshot satisfies          *)
(* equity = cash + positions_value, positions_value = the sum of           *)
(* market_value over the positions listed in it, and                       *)
(* total_pl = equity - initial_capital.                                    *)
(***************************************************************************)
SnapshotArithmetic ==
    /\ portfolio # NoPortfolio
          => /\ portfolio.equity = portfolio.cash + portfolio.positions_value
             /\ portfolio.positions_value
                   = TotalMarketValue(portfolio.positions,
                                      DOMAIN portfolio.positions)
             /\ portfolio.total_pl = portfolio.equity - initial_capital
    /\ \A k \in 1..Len(snapshots) :
          LET row == snapshots[k]
          IN  /\ row.equity = row.cash + row.total_positions_value
              /\ row.total_positions_value
                    = TotalMarketValue(row.positions_data,
                                       DOMAIN row.positions_data)
              /\ row.total_pl = row.equity - initial_capital

\* a snapshot listing a position worth more or less than it cost has been
\* persisted and returned
SnapshotWithProfitOrLoss ==
    /\ saved = "committed"
    /\ portfolio.positions # EmptyMap
    /\ portfolio.total_pl # 0
    /\ snapshots[Len(snapshots)].positions_data = portfolio.positions

(***************************************************************************)
(* C20.  take_portfolio_snapshot always returns a portfolio dictionary to  *)
(* its caller, and whether or not persisting the snapshot fails it leaves  *)
(* cash and the quantity, avg_entry_price and cost_basis of every position *)
(* unchanged.                                                              *)
(***************************************************************************)
SnapshotLeavesLedger ==
    [][(saved' # "none")
       => /\ portfolio' # NoPortfolio
          /\ cash' = cash
          /\ DOMAIN positions' = DOMAIN positions
          /\ \A s \in DOMAIN positions :
                /\ positions'[s].quantity = positions[s].quantity
                /\ positions'[s].avg_entry_price = positions[s].avg_entry_price
                /\ positions'[s].cost_basis = positions[s].cost_basis]_vars

\* a snapshot that revalued a position could not be persisted
SnapshotNotPersisted ==
    /\ saved = "rolled_back"
    /\ portfolio # NoPortfolio
    /\ \E s \in DOMAIN positions :
          /\ positions[s].unrealized_pl # RatInt(0)
          /\ portfolio.positions[s].market_value = positions[s].market_value

(***************************************************************************)
(* C21.  Every invocation of take_portfolio_snapshot appends exactly one   *)
(* new row to the persisted snapshots and never modifies or removes an     *)
(* existing row, also when two invocations obtain the same timestamp.      *)
(***************************************************************************)
SnapshotAppended ==
    [][(saved' # "none")
       => /\ Len(snapshots') = Len(snapshots) + 1
          /\ \A k \in 1..Len(snapshots) : snapshots'[k] = snapshots[k]]_vars

AtMostOnceFill ==
    \A i \in 1..Len(applied) : applied[i] <= 1

CycleTakesSnapshot ==
    cycle \in {"returned", "error"}
        => /\ saved # "none"
           /\ portfolio.cash = cash
           /\ DOMAIN portfolio.positions = DOMAIN positions
           /\ \A s \in DOMAIN positions :
                 portfolio.positions[s] = PositionData(positions[s])

\* C24: no two cycles run against the same PaperTrader at once: while the
\* scheduler thread is inside a job the main thread is inside no call, a call
\* requested meanwhile being skipped
OneCycleAtATime == ~(main_call \in MainCalls /\ job \in ScheduledJobs)

\* C25: get_historical_data answers from the cache, without calling the
\* provider, exactly when the same (symbol, period, interval) was fetched
\* less than one hour before; otherwise it calls the provider, and a
\* successful fetch replaces the entry with the new data and the new fetch
\* time, while a failed one leaves the cache as it was.  What is served is
\* always the data last fetched for that very request.
CacheTtl ==
    [][history'.outcome # "none" =>
         LET request == history'.request
             key == CacheKey(request[1], request[2], request[3])
             hit == request \in DOMAIN fetched
                        /\ now - fetched[request][1] < Hour
         IN  /\ (history'.outcome = "cached") <=> hit
             /\ history'.provider <=> ~hit
             /\ hit => /\ history'.data = fetched[request][2]
                       /\ UNCHANGED <<cached_data, fetched, now>>
             /\ history'.outcome = "fetched" =>
                   /\ history'.data \in Frames
                   /\ cached_data'[key] = <<now', history'.data>>
                   /\ fetched'[request] = <<now', history'.data>>
                   /\ \A k \in DOMAIN cached_data \ {key} :
                         k \in DOMAIN cached_data'
                            /\ cached_data'[k] = cached_data[k]
             /\ history'.outcome = "raised" =>
                   UNCHANGED <<cached_data, fetched>>
             /\ DOMAIN cached_data' =
                   {CacheKey(r[1], r[2], r[3]) : r \in DOMAIN fetched'}
             /\ \A r \in DOMAIN fetched' :
                   cached_data'[CacheKey(r[1], r[2], r[3])] = fetched'[r]]_vars

\* an entry that had expired was refetched and replaced, beside the entry of
\* another request
RefetchedAfterAnHour ==
    /\ history.outcome = "fetched"
    /\ history.expired
    /\ \E r \in DOMAIN fetched : r # history.request

\* C26: get_current_price raises exactly when the primary source and the
\* fallback source both fail; when only the primary fails it returns the
\* price of the fallback; whatever it returns is the price a source answered
PriceOrFailure ==
    price # NoQuote =>
        LET primary_ok == price.primary \in Prices
            fallback_ok == price.fallback \in Prices
        IN  /\ (price.answer.outcome = "raised")
                  <=> (~primary_ok /\ ~fallback_ok)
            /\ (~primary_ok /\ fallback_ok) =>
                  /\ price.answer.outcome = "returned"
                  /\ price.answer.value = price.fallback
            /\ price.answer.outcome = "returned" =>
                  /\ price.answer.value \in {price.primary, price.fallback}
                  /\ price.answer.value \in Prices
            /\ price.answer.outcome \in {"returned", "raised"}

\* the primary source answered an empty frame and the fallback raised
BothSourcesFailed ==
    /\ price # NoQuote
    /\ price.primary = EmptyFrame
    /\ price.fallback = SourceRaises
    /\ price.answer.outcome = "raised"

\* C27: an iteration of evaluate_pending_recommendations that obtains the
\* decision APPROVE or MODIFY adds exactly one order, NEW, MARKET, with the
\* symbol and the side of the recommendation and with the modified quantity
\* when the decision gives one and the recommended quantity otherwise; one
\* that obtains REJECT adds none
OrderPerApproval ==
    [][evaluation'.decision \in Decisions =>
         LET rec == recommendations[evaluation'.recommendation_id]
             given == evaluation'.modified_quantity \in Quantities
         IN  IF evaluation'.decision \in {"APPROVE", "MODIFY"}
             THEN /\ Len(orders') = Len(orders) + 1
                  /\ SubSeq(orders', 1, Len(orders)) = orders
                  /\ orders'[Len(orders')].status = "new"
                  /\ orders'[Len(orders')].type = "market"
                  /\ orders'[Len(orders')].symbol = rec.symbol
                  /\ orders'[Len(orders')].side = rec.side
                  /\ orders'[Len(orders')].quantity =
                        IF given THEN evaluation'.modified_quantity
                        ELSE rec.quantity
             ELSE orders' = orders]_vars

\* the trader holds `quantity` shares of the scenario's symbol, and nothing
\* else, at the average entry price `avg`, beside `c` in cash
ScenarioHolding(c, quantity, avg) ==
    /\ cash = c
    /\ DOMAIN positions = {ScenarioSymbol}
    /\ positions[ScenarioSymbol].quantity = quantity
    /\ positions[ScenarioSymbol].avg_entry_price = avg

\* the call that just returned was the order `side` `quantity` at `quote`
ScenarioCall(side, quantity, quote) ==
    /\ Called
    /\ last_result'.side = side
    /\ last_result'.quantity = quantity
    /\ last_result'.price = quote

\* C28: from cash 100000 with no positions and max_position_size 0.05, BUY 10
\* at 150 is filled and leaves cash 98500 and the position (10, avg 150); from
\* there BUY 5 at 160 is filled and leaves cash 97700 and the position
\* (15, avg 2300/15); from there SELL 15 at 170 is filled, deletes the
\* position and leaves cash 100250
WorkedScenario ==
    [][/\ (/\ cash = 100000
           /\ positions = EmptyMap
           /\ ScenarioCall("buy", 10, 150))
          => /\ last_result'.success
             /\ cash' = 98500
             /\ DOMAIN positions' = {ScenarioSymbol}
             /\ positions'[ScenarioSymbol].quantity = 10
             /\ positions'[ScenarioSymbol].avg_entry_price = RatInt(150)
       /\ (/\ ScenarioHolding(98500, 10, RatInt(150))
           /\ ScenarioCall("buy", 5, 160))
          => /\ last_result'.success
             /\ cash' = 97700
             /\ DOMAIN positions' = {ScenarioSymbol}
             /\ positions'[ScenarioSymbol].quantity = 15
             /\ positions'[ScenarioSymbol].avg_entry_price = Rat(2300, 15)
       /\ (/\ ScenarioHolding(97700, 15, Rat(2300, 15))
           /\ ScenarioCall("sell", 15, 170))
          => /\ last_result'.success
             /\ positions' = EmptyMap
             /\ cash' = 100250]_vars

\* the third order of the scenario has been filled
ScenarioCompleted ==
    /\ calls = 3
    /\ last_result.success
    /\ last_result.side = "sell"
    /\ last_result.quantity = 15
    /\ last_result.price = 170
    /\ cash = 100250
    /\ positions = EmptyMap

DecisionsOf(rows, id) ==
    {k \in 1..Len(rows) : rows[k].recommendation_id = id}

(***************************************************************************)
(* C36.  Each recommendation is decided exactly once: when an iteration of *)
(* evaluate_pending_recommendations has obtained the decision of a         *)
(* recommendation, exactly one ManagerDecision row exists for it, and a    *)
(* later evaluation does not select it as pending.                         *)
(***************************************************************************)
DecidedOnce ==
    [][/\ evaluation'.decision \in Decisions =>
             Cardinality(DecisionsOf(decisions',
                                     evaluation'.recommendation_id)) = 1
       /\ (manager_pc = "idle" /\ manager_pc' = "evaluating") =>
             \A k \in 1..Len(pending_recommendations') :
                \A j \in 1..Len(evaluations) :
                   evaluations[j][1] # pending_recommendations'[k]]_vars

(***************************************************************************)
(* C37.  Scheduler uniqueness: whatever start_scheduler and stop_scheduler *)
(* calls were made, the scheduler thread that is alive runs each periodic  *)
(* job once per period: the jobs have been registered exactly once.        *)
(***************************************************************************)
JobsRegisteredOnce == scheduler_thread = "alive" => registered = 1

(***************************************************************************)
(* C38.  Once start_scheduler has returned and until stop_scheduler is     *)
(* called, a scheduler thread is alive, also when the start follows a stop *)
(* whose join timed out.                                                   *)
(***************************************************************************)
LoopRunsUntilStopped == started => scheduler_thread \in {"starting", "alive"}

\* every fill so far went through the database session: each order that was
\* applied to the ledger was applied once and is FILLED, and each position
\* held is the row of its symbol
FillsPersisted ==
    /\ \A i \in 1..Len(orders) :
          applied[i] > 0 => applied[i] = 1 /\ orders[i].status = "filled"
    /\ \A s \in DOMAIN positions :
          /\ positions[s].persisted
          /\ s \in DOMAIN db_positions
          /\ db_positions[s].quantity = positions[s].quantity
          /\ db_positions[s].avg_entry_price = positions[s].avg_entry_price

(***************************************************************************)
(* C33.  Restart preserves positions: when every fill was persisted, the   *)
(* trader constructed on the same database holds the symbols the ledger    *)
(* held, with the same quantities and average prices; a position closed by *)
(* a sale of the whole holding is not among them.                          *)
(***************************************************************************)
RestartPreservesPositions ==
    [][(Restart /\ FillsPersisted) =>
          /\ DOMAIN positions' = DOMAIN positions
          /\ \A s \in DOMAIN positions :
                /\ positions'[s].quantity = positions[s].quantity
                /\ positions'[s].avg_entry_price
                      = positions[s].avg_entry_price]_vars

(***************************************************************************)
(* C34.  Restart preserves cash: the trader constructed on the same        *)
(* database after a completed trading cycle starts with the cash the       *)
(* ledger had when the cycle ended.                                        *)
(***************************************************************************)
RestartPreservesCash ==
    [][(Restart /\ cycle = "returned") => cash' = cash]_vars

\* C31: cash >= 0 also when two execute_order calls on the one PaperTrader
\* interleave: a thread that has passed the affordability test still finds
\* the cost covered by the cash when it comes to debit it, and the cash
\* never falls below zero
InterleavedDebitsCovered ==
    /\ cash >= 0
    /\ \A t \in ExecThreads :
        exec[t].at = "debit"
            => exec[t].current_price * exec[t].quantity <= cash

\* C32: under repeated trading cycles with the quotes of its symbol
\* available, every NEW order eventually leaves the NEW state (it becomes
\* FILLED or REJECTED); no order is re-evaluated in every cycle for ever
NewOrdersLeaveNew ==
    \A i \in 1..MaxOrders :
        (i <= Len(orders) /\ orders[i].status = "new")
            ~> (i <= Len(orders) /\ orders[i].status # "new")

\* C39: a call of run_full_cycle with force_run = False while the market is
\* closed returns the skipped status and changes nothing: no recommendation,
\* decision or order is created, no order is executed, cash and positions
\* are unchanged and no snapshot is taken; a call with force_run = True enters
\* the cycle whatever the market state, and no other call is skipped
MarketClosedSkip ==
    [][(full.status \notin Stages /\ full' # full) =>
          /\ (~full'.force_run /\ ~full'.market_open) =>
                /\ full'.status = "skipped"
                /\ UNCHANGED <<recommendations, decisions, orders, applied,
                               cash, positions, db_positions, snapshots,
                               buy_fills, calls>>
          /\ full'.force_run => full'.status = "analysts"
          /\ full'.status = "skipped" =>
                ~full'.force_run /\ ~full'.market_open]_vars

\* a call is skipped while an order created by an earlier cycle is still NEW
\* and a snapshot of that cycle is stored
SkippedOverNewOrders ==
    /\ full.status = "skipped"
    /\ NewOrderIds(orders) # <<>>
    /\ snapshots # <<>>

====
